---------------------------- MODULE Spec2Model ----------------------------
(***************************************************************************)
(* Model of extract_icons (src/smth.py): a linear pipeline that loads a    *)
(* CSS bundle, extracts Font Awesome selector class names with two regular *)
(* expressions, normalises them into base / brand / non-brand lists and    *)
(* writes the lists to files.                                              *)
(*                                                                         *)
(* Strings are sequences of one-character strings, so that prefix tests,   *)
(* replacement, splitting, regular-expression matching and lexicographic   *)
(* ordering are computed character by character as Python computes them.   *)
(***************************************************************************)
EXTENDS Integers, Sequences, FiniteSets, TLC

VARIABLES
    pc,               \* position of main(): the statement about to run
    css_exists,       \* css_path.exists()
    css_file,         \* content of the file at css_path
    args,             \* parsed command line (args.markdown, args.json, args.csv)
    css_text,         \* main's local css_text
    raw_classes,      \* main's local raw_classes
    all_icons,        \* main's local all_icons
    brand_icons,      \* main's local brand_icons
    non_brand_icons,  \* main's local non_brand_icons
    fs,               \* output files that exist: path -> [complete, content]
    stdout,           \* lines printed so far
    error             \* exception that ended the run, "none" otherwise

vars == <<pc, css_exists, css_file, args, css_text, raw_classes, all_icons,
          brand_icons, non_brand_icons, fs, stdout, error>>

-----------------------------------------------------------------------------
(* Bounds *)

\* Number of selector fragments concatenated into the CSS input.
MaxSelectors == 3

-----------------------------------------------------------------------------
(* Characters and strings *)

Lower == {"a", "b", "c", "d", "e", "f", "g", "h", "i", "j", "k", "l", "m",
          "n", "o", "p", "q", "r", "s", "t", "u", "v", "w", "x", "y", "z"}

Digit == {"0", "1", "2", "3", "4", "5", "6", "7", "8", "9"}

\* The characters of the model in code-point order.
CodePointOrder ==
    <<"\n", "-", ".", "0", "1", "2", "3", "4", "5", "6", "7", "8", "9", ":",
      "a", "b", "c", "d", "e", "f", "g", "h", "i", "j", "k", "l", "m", "n",
      "o", "p", "q", "r", "s", "t", "u", "v", "w", "x", "y", "z", "{", "}">>

ord(c) == CHOOSE i \in 1..Len(CodePointOrder) : CodePointOrder[i] = c

\* Python's str < str: lexicographic on code points, a proper prefix is less.
RECURSIVE StrLess(_, _)
StrLess(s, t) ==
    IF t = <<>> THEN FALSE
    ELSE IF s = <<>> THEN TRUE
    ELSE IF Head(s) = Head(t) THEN StrLess(Tail(s), Tail(t))
    ELSE ord(Head(s)) < ord(Head(t))

\* text[i:].startswith(lit), with i counted from 1
HasAt(text, i, lit) ==
    /\ i + Len(lit) - 1 <= Len(text)
    /\ SubSeq(text, i, i + Len(lit) - 1) = lit

startswith(s, prefix) == HasAt(s, 1, prefix)

\* str.replace(old, new): every non-overlapping occurrence, left to right.
RECURSIVE replace(_, _, _)
replace(s, old, new) ==
    IF s = <<>> THEN <<>>
    ELSE IF HasAt(s, 1, old)
         THEN new \o replace(SubSeq(s, Len(old) + 1, Len(s)), old, new)
         ELSE <<Head(s)>> \o replace(Tail(s), old, new)

\* s.split(sep, 1)[1] for a one-character sep that occurs in s:
\* everything after the first occurrence of sep.
RECURSIVE split1_rest(_, _)
split1_rest(s, sep) ==
    IF Head(s) = sep THEN Tail(s) ELSE split1_rest(Tail(s), sep)

\* "\n".join(items)
RECURSIVE join(_, _)
join(sep, items) ==
    IF items = <<>> THEN <<>>
    ELSE IF Len(items) = 1 THEN items[1]
    ELSE items[1] \o sep \o join(sep, Tail(items))

Range(seq) == {seq[i] : i \in DOMAIN seq}

\* Mutant of sorted: sorted(S, reverse=True).
RECURSIVE sorted_descending(_)
sorted_descending(S) ==
    IF S = {} THEN <<>>
    ELSE LET m == CHOOSE x \in S : \A y \in S : x = y \/ StrLess(y, x)
         IN  <<m>> \o sorted_descending(S \ {m})

\* sorted(S) of a set of strings: ascending by StrLess.
RECURSIVE sorted(_)
sorted(S) ==
    IF S = {} THEN <<>>
    ELSE LET m == CHOOSE x \in S : \A y \in S : x = y \/ StrLess(x, y)
         IN  <<m>> \o sorted(S \ {m})

-----------------------------------------------------------------------------
(* The two regular expressions *)

S_fa  == <<"f", "a", "-">>
S_fab == <<"f", "a", "b", "-">>
S_fas == <<"f", "a", "s", "-">>
S_far == <<"f", "a", "r", "-">>
S_fal == <<"f", "a", "l", "-">>
S_before == <<"b", "e", "f", "o", "r", "e">>

\* [a-z0-9-]
SlugChar(c) == c \in Lower \cup Digit \cup {"-"}

\* Number of consecutive [a-z0-9-] characters of text from position j on.
RECURSIVE SlugRun(_, _)
SlugRun(text, j) ==
    IF j <= Len(text) /\ SlugChar(text[j]) THEN 1 + SlugRun(text, j + 1) ELSE 0

\* Ways the pattern  \.(fa L -[a-z0-9-]+)::?before  matches at position i,
\* as <<k, n, c>>: k letters between "fa" and the hyphen, a slug of n
\* characters, c colons.  L is "" when k = 0; with the style pattern's
\* [brsl]?[a-z]? it is one lowercase letter when k = 1 and one of b r s l
\* followed by a lowercase letter when k = 2.
Candidates(text, i, ks) ==
    IF ~HasAt(text, i, <<".", "f", "a">>) THEN {}
    ELSE UNION {
        IF /\ i + 3 + k <= Len(text)
           /\ k = 1 => text[i + 3] \in Lower
           /\ k = 2 => text[i + 3] \in {"b", "r", "s", "l"} /\ text[i + 4] \in Lower
           /\ text[i + 3 + k] = "-"
        THEN { m \in {k} \X (1..SlugRun(text, i + 4 + k)) \X {1, 2} :
                 LET after == i + 4 + k + m[2]   \* first position after the slug
                 IN  /\ after + m[3] - 1 <= Len(text)
                     /\ \A j \in 0..(m[3] - 1) : text[after + j] = ":"
                     /\ HasAt(text, after + m[3], S_before) }
        ELSE {}
        : k \in ks }

\* Greedy quantifiers: the engine prefers taking an optional letter, then a
\* longer slug, then the second colon.
Prefer(m1, m2) ==
    \/ m1[1] > m2[1]
    \/ m1[1] = m2[1] /\ m1[2] > m2[2]
    \/ m1[1] = m2[1] /\ m1[2] = m2[2] /\ m1[3] >= m2[3]

\* The match at position i: its captured group and the position after it;
\* <<>> when the pattern does not match at i.
MatchAt(text, i, ks) ==
    LET cands == Candidates(text, i, ks)
    IN  IF cands = {} THEN <<>>
        ELSE LET m == CHOOSE m1 \in cands : \A m2 \in cands : Prefer(m1, m2)
             IN  <<SubSeq(text, i + 1, i + 3 + m[1] + m[2]),
                   i + 4 + m[1] + m[2] + m[3] + Len(S_before)>>

\* r"\.(fa-[a-z0-9-]+)::?before"
ICON_SELECTOR_RE(text, i) == MatchAt(text, i, {0})

\* r"\.(fa[brsl]?[a-z]?-[a-z0-9-]+)::?before"
STYLE_SELECTOR_RE(text, i) == MatchAt(text, i, {0, 1, 2})

\* re.findall: the groups of the non-overlapping matches, scanning left to
\* right from position i.
RECURSIVE findall(_, _, _)
findall(re, text, i) ==
    IF i > Len(text) THEN <<>>
    ELSE LET m == IF re = "ICON" THEN ICON_SELECTOR_RE(text, i)
                  ELSE STYLE_SELECTOR_RE(text, i)
         IN  IF m = <<>> THEN findall(re, text, i + 1)
             ELSE <<m[1]>> \o findall(re, text, m[2])

extract_icon_classes(text) ==
    LET matches_primary == findall("ICON", text, 1)
        matches_style == findall("STYLE", text, 1)
    IN  Range(matches_primary) \cup Range(matches_style)

-----------------------------------------------------------------------------
(* normalize_icons *)

\* cls.replace("fab-", "fa-")
brand_name(cls) == replace(cls, S_fab, S_fa)

\* f"fa-{cls.split('-', 1)[1]}"
solid_full(cls) == S_fa \o split1_rest(cls, "-")

\* Mutant of is_solid_prefixed: cls.startswith("fas-") alone.
is_solid_prefixed_fas_only(cls) == startswith(cls, S_fas)

\* cls.startswith(("fas-", "far-", "fal-"))
is_solid_prefixed(cls) ==
    startswith(cls, S_fas) \/ startswith(cls, S_far) \/ startswith(cls, S_fal)

\* base_icons after the loop over raw
base_icons_of(raw) ==
    {cls \in raw : startswith(cls, S_fa)}
    \cup {solid_full(cls) : cls \in {c \in raw : /\ ~startswith(c, S_fa)
                                                 /\ ~startswith(c, S_fab)
                                                 /\ is_solid_prefixed(c)}}

\* brand_icons after the loop over raw
brand_icons_of(raw) ==
    {brand_name(cls) : cls \in {c \in raw : /\ ~startswith(c, S_fa)
                                            /\ startswith(c, S_fab)}}

\* Mutant of full_base: the brand names are not merged into the base set.
full_base_unmerged(raw) == base_icons_of(raw)

\* full_base = base_icons | brand_icons
full_base(raw) == base_icons_of(raw) \cup brand_icons_of(raw)

\* The returned triple: all, brands, non-brands.
normalize_icons(raw) ==
    <<sorted(full_base(raw)),
      sorted(brand_icons_of(raw)),
      sorted(full_base(raw) \ brand_icons_of(raw))>>

-----------------------------------------------------------------------------
(* Writers: the content each one writes *)

\* Mutant of write_list: "\n".join(items), the trailing newline forgotten.
write_list_no_trailing_newline(items) == join(<<"\n">>, items)

\* "\n".join(items) + "\n"
write_list(items) == join(<<"\n">>, items) \o <<"\n">>

\* The double-quote and backtick characters of a table row.
Quote == "U+0022"
Tick == "U+0060"

\* The lines of the table, each as its pieces; the file is these lines
\* joined by and ended with a newline.
write_markdown_table(icons) ==
    <<"| Icon Class | Preview |", "|-----------|---------|">>
    \o [i \in 1..Len(icons) |->
          <<"| ", Tick, icons[i], Tick, " | ", Tick, "<span class=", Quote,
            "icon ", icons[i], Quote, "></span>", Tick, " |">>]

\* Mutant of write_json: count_non_brands taken from the wrong list.
write_json_miscounted(icons, brands, solids) ==
    [count_total      |-> Len(icons),
     count_brands     |-> Len(brands),
     count_non_brands |-> Len(icons),
     icons            |-> icons,
     brands           |-> brands,
     non_brands       |-> solids]

\* The object handed to json.dumps.
write_json(icons, brands, solids) ==
    [count_total      |-> Len(icons),
     count_brands     |-> Len(brands),
     count_non_brands |-> Len(solids),
     icons            |-> icons,
     brands           |-> brands,
     non_brands       |-> solids]

\* The rows handed to csv.writer.
write_csv(icons, brands) ==
    <<  <<"icon_class", "is_brand">>  >>
    \o [i \in 1..Len(icons) |->
          <<icons[i], IF icons[i] \in Range(brands) THEN "yes" ELSE "no">>]

-----------------------------------------------------------------------------
(* Inputs *)

\* Selector fragments a CSS bundle is assembled from.
Selectors ==
    {
      \* .fa-y:before{}
      <<".", "f", "a", "-", "y", ":", "b", "e", "f", "o", "r", "e", "{",
        "}">>,
      \* .fab-x::before
      <<".", "f", "a", "b", "-", "x", ":", ":", "b", "e", "f", "o", "r",
        "e">>,
      \* .fas-x:before
      <<".", "f", "a", "s", "-", "x", ":", "b", "e", "f", "o", "r", "e">>,
      \* .fab-fab-x:before
      <<".", "f", "a", "b", "-", "f", "a", "b", "-", "x", ":", "b", "e",
        "f", "o", "r", "e">>,
      \* .fa-y:after.fabs-y:before
      <<".", "f", "a", "-", "y", ":", "a", "f", "t", "e", "r", ".", "f",
        "a", "b", "s", "-", "y", ":", "b", "e", "f", "o", "r", "e">>,
      \* .far-500px:before
      <<".", "f", "a", "r", "-", "5", "0", "0", "p", "x", ":", "b", "e",
        "f", "o", "r", "e">>
    }

RECURSIVE Flatten(_)
Flatten(ss) == IF ss = <<>> THEN <<>> ELSE Head(ss) \o Flatten(Tail(ss))

CssInputs ==
    {Flatten(ss) : ss \in UNION {[1..n -> Selectors] : n \in 0..MaxSelectors}}

\* argparse defaults, with each optional output either left "" or given.
ArgSets ==
    [css        : {"assets/css/fontawesome-all.min.css"},
     out        : {"icon_list.txt"},
     brands_out : {"brands_list.txt"},
     solids_out : {"solids_list.txt"},
     markdown   : {"", "table.md"},
     json       : {"", "icons.json"},
     csv        : {"", "icons.csv"}]

NoFiles == [p \in {} |-> <<>>]

Init ==
    /\ pc = "load_css"
    /\ css_exists \in BOOLEAN
    /\ css_file \in (IF css_exists THEN CssInputs ELSE {<<>>})
    /\ args \in ArgSets
    /\ css_text = <<>>
    /\ raw_classes = {}
    /\ all_icons = <<>>
    /\ brand_icons = <<>>
    /\ non_brand_icons = <<>>
    /\ fs = NoFiles
    /\ stdout = <<>>
    /\ error = "none"

-----------------------------------------------------------------------------
(* main *)

\* Path.write_text / Path.open("w") returned: the file holds content.
Written(files, path, content) ==
    [p \in DOMAIN files \cup {path} |->
        IF p = path THEN [complete |-> TRUE, content |-> content] ELSE files[p]]

\* The file was opened for writing (created or truncated) and the write then
\* failed: it holds some proper prefix of the data.
Truncated(files, path) ==
    [p \in DOMAIN files \cup {path} |->
        IF p = path THEN [complete |-> FALSE] ELSE files[p]]

\* A write either succeeds, or raises OSError and the run ends with the
\* traceback: at open(), leaving the path untouched, or after it, leaving
\* the file incomplete.
WriteStep(path, content, next) ==
    \/ /\ fs' = Written(fs, path, content)
       /\ pc' = next
       /\ error' = error
    \/ /\ fs' \in {fs, Truncated(fs, path)}
       /\ pc' = "aborted"
       /\ error' = "OSError"

\* Mutant of load_css: the exists() test is missing and a missing file
\* reads as empty text.
load_css_unchecked ==
    /\ pc = "load_css"
    /\ css_text' = css_file
    /\ pc' = "extract_icon_classes"
    /\ UNCHANGED <<css_exists, css_file, args, raw_classes, all_icons,
                   brand_icons, non_brand_icons, fs, stdout, error>>

\* css_text = load_css(css_path)
load_css ==
    /\ pc = "load_css"
    /\ IF ~css_exists
       THEN /\ error' = "FileNotFoundError"
            /\ pc' = "aborted"
            /\ css_text' = css_text
       ELSE /\ css_text' = css_file
            /\ pc' = "extract_icon_classes"
            /\ error' = error
    /\ UNCHANGED <<css_exists, css_file, args, raw_classes, all_icons,
                   brand_icons, non_brand_icons, fs, stdout>>

\* raw_classes = extract_icon_classes(css_text)
extract ==
    /\ pc = "extract_icon_classes"
    /\ raw_classes' = extract_icon_classes(css_text)
    /\ pc' = "normalize_icons"
    /\ UNCHANGED <<css_exists, css_file, args, css_text, all_icons,
                   brand_icons, non_brand_icons, fs, stdout, error>>

\* all_icons, brand_icons, non_brand_icons = normalize_icons(raw_classes)
normalize ==
    /\ pc = "normalize_icons"
    /\ LET r == normalize_icons(raw_classes)
       IN  /\ all_icons' = r[1]
           /\ brand_icons' = r[2]
           /\ non_brand_icons' = r[3]
    /\ pc' = "write_out"
    /\ UNCHANGED <<css_exists, css_file, args, css_text, raw_classes, fs,
                   stdout, error>>

\* write_list(Path(args.out), all_icons)
write_out ==
    /\ pc = "write_out"
    /\ WriteStep(args.out, write_list(all_icons), "write_brands_out")
    /\ UNCHANGED <<css_exists, css_file, args, css_text, raw_classes,
                   all_icons, brand_icons, non_brand_icons, stdout>>

\* Mutant of write_brands_out: a failed write is swallowed and main goes on.
write_brands_out_swallowing ==
    /\ pc = "write_brands_out"
    /\ \/ fs' = Written(fs, args.brands_out, write_list(brand_icons))
       \/ fs' \in {fs, Truncated(fs, args.brands_out)}
    /\ pc' = "write_solids_out"
    /\ UNCHANGED <<css_exists, css_file, args, css_text, raw_classes,
                   all_icons, brand_icons, non_brand_icons, stdout, error>>

\* write_list(Path(args.brands_out), brand_icons)
write_brands_out ==
    /\ pc = "write_brands_out"
    /\ WriteStep(args.brands_out, write_list(brand_icons), "write_solids_out")
    /\ UNCHANGED <<css_exists, css_file, args, css_text, raw_classes,
                   all_icons, brand_icons, non_brand_icons, stdout>>

\* write_list(Path(args.solids_out), non_brand_icons)
write_solids_out ==
    /\ pc = "write_solids_out"
    /\ WriteStep(args.solids_out, write_list(non_brand_icons), "markdown")
    /\ UNCHANGED <<css_exists, css_file, args, css_text, raw_classes,
                   all_icons, brand_icons, non_brand_icons, stdout>>

\* if args.markdown: write_markdown_table(Path(args.markdown), all_icons)
markdown ==
    /\ pc = "markdown"
    /\ IF args.markdown # ""
       THEN WriteStep(args.markdown, write_markdown_table(all_icons), "json")
       ELSE pc' = "json" /\ UNCHANGED <<fs, error>>
    /\ UNCHANGED <<css_exists, css_file, args, css_text, raw_classes,
                   all_icons, brand_icons, non_brand_icons, stdout>>

\* Mutant of json: the JSON write guarded by args.csv.
json_guarded_by_csv ==
    /\ pc = "json"
    /\ IF args.csv # ""
       THEN WriteStep(args.json,
                      write_json(all_icons, brand_icons, non_brand_icons), "csv")
       ELSE pc' = "csv" /\ UNCHANGED <<fs, error>>
    /\ UNCHANGED <<css_exists, css_file, args, css_text, raw_classes,
                   all_icons, brand_icons, non_brand_icons, stdout>>

\* if args.json: write_json(Path(args.json), all_icons, brand_icons, non_brand_icons)
json ==
    /\ pc = "json"
    /\ IF args.json # ""
       THEN WriteStep(args.json,
                      write_json(all_icons, brand_icons, non_brand_icons), "csv")
       ELSE pc' = "csv" /\ UNCHANGED <<fs, error>>
    /\ UNCHANGED <<css_exists, css_file, args, css_text, raw_classes,
                   all_icons, brand_icons, non_brand_icons, stdout>>

\* if args.csv: write_csv(Path(args.csv), all_icons, brand_icons)
csv ==
    /\ pc = "csv"
    /\ IF args.csv # ""
       THEN WriteStep(args.csv, write_csv(all_icons, brand_icons), "print")
       ELSE pc' = "print" /\ UNCHANGED <<fs, error>>
    /\ UNCHANGED <<css_exists, css_file, args, css_text, raw_classes,
                   all_icons, brand_icons, non_brand_icons, stdout>>

\* The print calls that end main.
print_summary ==
    /\ pc = "print"
    /\ stdout' =
         << <<"Total icons: ", Len(all_icons)>>,
            <<"Brands: ", Len(brand_icons), " | Non-brands: ", Len(non_brand_icons)>>,
            <<"Wrote: ", args.out, args.brands_out, args.solids_out>> >>
         \o (IF args.markdown # "" THEN << <<"Wrote markdown table: ", args.markdown>> >> ELSE <<>>)
         \o (IF args.json # "" THEN << <<"Wrote JSON: ", args.json>> >> ELSE <<>>)
         \o (IF args.csv # "" THEN << <<"Wrote CSV: ", args.csv>> >> ELSE <<>>)
    /\ pc' = "done"
    /\ UNCHANGED <<css_exists, css_file, args, css_text, raw_classes,
                   all_icons, brand_icons, non_brand_icons, fs, error>>

Next ==
    \/ load_css
    \/ extract
    \/ normalize
    \/ write_out
    \/ write_brands_out
    \/ write_solids_out
    \/ markdown
    \/ json
    \/ csv
    \/ print_summary

Spec == Init /\ [][Next]_vars

-----------------------------------------------------------------------------
(* Vocabulary of the properties *)

\* normalize_icons has returned: main holds its three lists.
Normalized ==
    pc \in {"write_out", "write_brands_out", "write_solids_out", "markdown",
            "json", "csv", "print", "done"}
    \/ (pc = "aborted" /\ error = "OSError")

\* extract_icon_classes has returned: main holds raw_classes.
Extracted == pc = "normalize_icons" \/ Normalized

\* main has ended, normally or with an exception.
Terminal == pc \in {"done", "aborted"}

\* The output paths the caller asked for, in the order main writes them.
RequestedOrder ==
    <<args.out, args.brands_out, args.solids_out>>
    \o (IF args.markdown # "" THEN <<args.markdown>> ELSE <<>>)
    \o (IF args.json # "" THEN <<args.json>> ELSE <<>>)
    \o (IF args.csv # "" THEN <<args.csv>> ELSE <<>>)

Requested == Range(RequestedOrder)

\* The output files whose write call has returned.
WrittenFiles == {p \in DOMAIN fs : fs[p].complete}

\* s precedes t in code-point order: they agree on the first k characters
\* and then s ends, or s has the smaller character.
Precedes(s, t) ==
    \E k \in 0..Len(s) :
        /\ k <= Len(t)
        /\ \A j \in 1..k : s[j] = t[j]
        /\ IF k = Len(s) THEN k < Len(t)
           ELSE k < Len(t) /\ ord(s[k + 1]) < ord(t[k + 1])

StrictlyAscending(list) ==
    \A i \in 1..(Len(list) - 1) : Precedes(list[i], list[i + 1])

\* The newline-terminated lines of a file's content.
RECURSIVE LinesFrom(_, _)
LinesFrom(content, line) ==
    IF content = <<>> THEN <<>>
    ELSE IF Head(content) = "\n" THEN <<line>> \o LinesFrom(Tail(content), <<>>)
    ELSE LinesFrom(Tail(content), Append(line, Head(content)))

Lines(content) == LinesFrom(content, <<>>)

EndsWithNewline(content) == content # <<>> /\ content[Len(content)] = "\n"

\* The three list files with the list main passes to write_list for each.
ListFiles ==
    { <<args.out, all_icons>>,
      <<args.brands_out, brand_icons>>,
      <<args.solids_out, non_brand_icons>> }

\* The text holds the selector  .<prefix><slug>:before  or, when colons is
\* 2,  .<prefix><slug>::before.
HasSelector(text, prefix, slug, colons) ==
    \E i \in {j \in 1..Len(text) : text[j] = "."} :
        HasAt(text, i,
              <<".">> \o prefix \o slug
              \o (IF colons = 2 THEN <<":", ":">> ELSE <<":">>) \o S_before)

\* Slugs of the style-prefixed selectors the inputs are assembled from.
Slugs == { <<"x">>, <<"y">>, <<"5", "0", "0", "p", "x">> }

SolidPrefixes == {S_fas, S_far, S_fal}

\* fa<at most one lowercase letter>-<non-empty slug>
OneLetterShape(t) ==
    \E k \in {0, 1} :
        /\ Len(t) >= 4 + k
        /\ t[1] = "f" /\ t[2] = "a"
        /\ k = 1 => t[3] \in Lower
        /\ t[3 + k] = "-"
        /\ \A j \in (4 + k)..Len(t) : SlugChar(t[j])

-----------------------------------------------------------------------------
(* Properties *)

\* C1: once normalize_icons has returned, the brand list is a subset of the
\* base list and the non-brand list holds exactly the base names that are
\* not brand names.
C1_BrandSubsetPartition ==
    Normalized =>
        /\ Range(brand_icons) \subseteq Range(all_icons)
        /\ Range(non_brand_icons) = Range(all_icons) \ Range(brand_icons)

C1_Witness ==
    /\ Normalized
    /\ brand_icons # <<>>
    /\ non_brand_icons # <<>>

\* C2: when the CSS path does not exist, main never gets past load_css, it
\* ends with FileNotFoundError, and no output file is created.
C2_MissingInputWritesNothing ==
    ~css_exists =>
        /\ pc \in {"load_css", "aborted"}
        /\ pc = "aborted" => error = "FileNotFoundError"
        /\ raw_classes = {}
        /\ DOMAIN fs = {}
        /\ stdout = <<>>

C2_Witness ==
    /\ ~css_exists
    /\ pc = "aborted"
    /\ error = "FileNotFoundError"

\* C3 as stated: in every terminal state either every requested output file
\* has been written or none has, also when a write step fails.
C3_AllOrNothing ==
    Terminal => (WrittenFiles = Requested \/ DOMAIN fs = {})

\* C3 amended: in every terminal state the files written are a prefix of the
\* requested outputs in the order main writes them: all of them when the
\* run completed, none when the input file is missing, and when a write
\* step fails exactly the ones before the failing step, whose own file is
\* left untouched or incomplete while no later file is touched.
C3_PrefixWritten ==
    Terminal =>
        \E k \in 0..Len(RequestedOrder) :
            /\ WrittenFiles = {RequestedOrder[i] : i \in 1..k}
            /\ DOMAIN fs \subseteq
                 {RequestedOrder[i] : i \in 1..k}
                 \cup (IF k < Len(RequestedOrder) THEN {RequestedOrder[k + 1]} ELSE {})
            /\ pc = "done" => k = Len(RequestedOrder)
            /\ error = "FileNotFoundError" => DOMAIN fs = {}
            /\ error = "OSError" => k < Len(RequestedOrder)

C3_Witness ==
    /\ pc = "aborted"
    /\ error = "OSError"
    /\ WrittenFiles = {args.out, args.brands_out}
    /\ DOMAIN fs = {args.out, args.brands_out, args.solids_out}

\* C4 as stated: whenever the CSS holds .fas-<slug>:before (or far-, fal-),
\* the base list includes fa-<slug> and the brand list does not.
C4_SolidNeverBrand ==
    Normalized =>
        \A prefix \in SolidPrefixes, slug \in Slugs :
            HasSelector(css_text, prefix, slug, 1) =>
                /\ S_fa \o slug \in Range(all_icons)
                /\ S_fa \o slug \notin Range(brand_icons)

\* C4 amended: whenever the CSS holds .fas-<slug>:before (or far-, fal-),
\* the base list includes fa-<slug>, and the brand list includes fa-<slug>
\* exactly when the CSS also holds a fab- selector that normalises to
\* fa-<slug> (.fab-<slug>:before or .fab-<slug>::before).
C4_SolidInBaseBrandOnlyByFab ==
    Normalized =>
        \A prefix \in SolidPrefixes, slug \in Slugs :
            HasSelector(css_text, prefix, slug, 1) =>
                /\ S_fa \o slug \in Range(all_icons)
                /\ S_fa \o slug \in Range(brand_icons)
                     <=> \/ HasSelector(css_text, S_fab, slug, 1)
                         \/ HasSelector(css_text, S_fab, slug, 2)

C4_Witness ==
    /\ Normalized
    /\ HasSelector(css_text, S_fas, <<"x">>, 1)
    /\ <<"f", "a", "-", "x">> \in Range(all_icons)
    /\ <<"f", "a", "-", "x">> \in Range(brand_icons)

\* C5: the base, brand and non-brand lists are each strictly ascending in
\* code-point order, hence free of duplicates.
C5_StrictlySorted ==
    Normalized =>
        /\ StrictlyAscending(all_icons)
        /\ StrictlyAscending(brand_icons)
        /\ StrictlyAscending(non_brand_icons)

C5_Witness ==
    /\ Normalized
    /\ Len(all_icons) >= 3
    /\ Len(brand_icons) >= 2

\* C6: in the JSON object main writes, count_total is the length of icons
\* and count_brands + count_non_brands is count_total.
C6_JsonCounts ==
    (args.json # "" /\ args.json \in WrittenFiles) =>
        LET data == fs[args.json].content
        IN  /\ data.count_total = Len(data.icons)
            /\ data.count_brands + data.count_non_brands = data.count_total

C6_Witness ==
    /\ args.json # ""
    /\ args.json \in WrittenFiles
    /\ fs[args.json].content.count_brands > 0
    /\ fs[args.json].content.count_non_brands > 0

\* C7: once main has printed its summary or completed, the three list files
\* are written and each of the Markdown, JSON and CSV files is written
\* exactly when its path argument is non-empty.
C7_OutputsThenSummary ==
    (pc = "done" \/ stdout # <<>>) =>
        /\ {args.out, args.brands_out, args.solids_out} \subseteq WrittenFiles
        /\ args.markdown # "" <=> "table.md" \in WrittenFiles
        /\ args.json # "" <=> "icons.json" \in WrittenFiles
        /\ args.csv # "" <=> "icons.csv" \in WrittenFiles
        /\ DOMAIN fs \subseteq {"icon_list.txt", "brands_list.txt", "solids_list.txt",
                                "table.md", "icons.json", "icons.csv"}
        /\ WrittenFiles = DOMAIN fs

C7_Witness ==
    /\ pc = "done"
    /\ stdout # <<>>
    /\ args.markdown = ""
    /\ args.json # ""
    /\ args.csv # ""

\* C8 as stated: for every raw token that starts with fab-, the name made of
\* fa- and the token's text after its first four characters is in both the
\* base list and the brand list.
C8_FabStripsLeadingPrefixOnly ==
    Normalized =>
        \A t \in raw_classes :
            startswith(t, S_fab) =>
                LET derived == S_fa \o SubSeq(t, 5, Len(t))
                IN  /\ derived \in Range(all_icons)
                    /\ derived \in Range(brand_icons)

\* C9 as stated: every list file written has as many lines as the list has
\* names, line i is the i-th name, and the file ends with a newline.
C9_OneNamePerLine ==
    \A f \in ListFiles :
        f[1] \in WrittenFiles =>
            /\ EndsWithNewline(fs[f[1]].content)
            /\ Lines(fs[f[1]].content) = f[2]

\* C9 amended: every list file written ends with a newline; for a non-empty
\* list it has as many lines as the list has names and line i is the i-th
\* name; for the empty list it is a single newline, that is one empty line.
C9_OneNamePerLineNonEmpty ==
    \A f \in ListFiles :
        f[1] \in WrittenFiles =>
            /\ EndsWithNewline(fs[f[1]].content)
            /\ IF f[2] = <<>>
               THEN /\ fs[f[1]].content = <<"\n">>
                    /\ Lines(fs[f[1]].content) = << <<>> >>
               ELSE Lines(fs[f[1]].content) = f[2]

C9_Witness ==
    /\ args.brands_out \in WrittenFiles
    /\ args.out \in WrittenFiles
    /\ brand_icons = <<>>
    /\ Len(all_icons) >= 2

\* C10 as stated: every token extract_icon_classes returns is fa, at most
\* one lowercase letter, a hyphen and a non-empty slug of lowercase letters,
\* digits or hyphens.
C10_AtMostOneStyleLetter ==
    Extracted => \A t \in raw_classes : OneLetterShape(t)

=============================================================================
